---- MODULE Spec2Model ----
(***************************************************************************)
(* Identity and access layer of the waste-collection backend:              *)
(* registration and login (backend/app/api/auth.py), the users table       *)
(* (backend/models.py), the JWT helpers (backend/app/utils/jwt_helper.py,  *)
(* backend/app/main.py) and the error catalog                              *)
(* (backend/app/utils/error_catalog.py).                                   *)
(*                                                                         *)
(* Time is counted in ticks of 1/TicksPerSecond second, so that the        *)
(* whole-second NumericDate a JWT carries is a real truncation.            *)
(* Library behaviour assumed: bcrypt is injective in (password, salt);     *)
(* HMAC-SHA256 is injective in (key, message); passlib raises on a hash    *)
(* no configured scheme identifies; PyJWT checks the signature before the  *)
(* claims and rejects a token whose exp <= now.                            *)
(***************************************************************************)
EXTENDS Integers, FiniteSets, Sequences, TLC

VARIABLES users, nextId, clock, pc, req, resp, held

vars == <<users, nextId, clock, pc, req, resp, held>>

(***************************************************************************)
(* Bounds of the model.                                                    *)
(***************************************************************************)
MaxId == 2
TicksPerSecond == 2
MaxFine == 1
MaxTtlSeconds == 1

Workers == {1, 2}
Usernames == {"alice", "bob"}
Phones == {"+21612345678", "+21687654321"}
Passwords == {"secret1", "wrong"}
Salts == {"salt1", "salt2"}

(***************************************************************************)
(* Configuration.                                                          *)
(***************************************************************************)
SECRET_KEY == "your-secret-key-change-in-production"
OTHER_KEY == "some-other-secret"
ALGORITHM == "HS256"
ACCESS_TOKEN_EXPIRE_MINUTES == 30

UserRole == {"citizen", "collector", "municipality", "recycler"}
RoleInputs == {"municipality"}

\* timedelta(minutes = m), in ticks
Minutes(m) == m * 60 * TicksPerSecond

ExpireTicks == Minutes(ACCESS_TOKEN_EXPIRE_MINUTES)
MaxClock == ExpireTicks + MaxFine

\* the instants the clock is observed at: those within MaxFine ticks of the
\* start and of one default ttl after it
ClockValues ==
    {c \in {lap * ExpireTicks + fine : lap \in {0, 1}, fine \in (0 - MaxFine)..MaxFine} :
        c >= 0 /\ c <= MaxClock}

(***************************************************************************)
(* Error catalog.                                                          *)
(***************************************************************************)
ERRORS ==
    ("AUTH_001" :> [code |-> 401, message |-> "Invalid credentials"]) @@
    ("AUTH_002" :> [code |-> 401, message |-> "Unauthorized access"]) @@
    ("USER_001" :> [code |-> 400, message |-> "User already exists"]) @@
    ("USER_002" :> [code |-> 404, message |-> "User not found"]) @@
    ("BATCH_001" :> [code |-> 400, message |-> "Invalid batch data"]) @@
    ("BATCH_002" :> [code |-> 400, message |-> "Invalid material type"]) @@
    ("BATCH_003" :> [code |-> 404, message |-> "Batch not found"]) @@
    ("HOTSPOT_001" :> [code |-> 400, message |-> "Invalid hotspot coordinates"]) @@
    ("HOTSPOT_002" :> [code |-> 404, message |-> "Hotspot not found"]) @@
    ("ROUTE_001" :> [code |-> 400, message |-> "Insufficient hotspots for routing"]) @@
    ("VALIDATION_001" :> [code |-> 422, message |-> "Data validation failed"])

\* as get_error, indexing ERRORS with no default: an unknown code raises
get_error_strict(error_code) ==
    IF error_code \in DOMAIN ERRORS
    THEN ERRORS[error_code]
    ELSE [code |-> 0, message |-> "KeyError"]

\* ErrorCatalog.get_error: ERRORS.get(error_code, default)
get_error(error_code) ==
    IF error_code \in DOMAIN ERRORS
    THEN ERRORS[error_code]
    ELSE [code |-> 500, message |-> "Unknown error"]

(***************************************************************************)
(* Credential manager: bcrypt through passlib's CryptContext.              *)
(***************************************************************************)
\* the digest bcrypt computes from a password and a salt
Bcrypt(password, salt) == <<salt, password>>

NoHash == [scheme |-> "none", salt |-> "", digest |-> <<"", "">>]

\* pwd_context.hash: a fresh salt each call
hash_password(password, salt) ==
    [scheme |-> "bcrypt", salt |-> salt, digest |-> Bcrypt(password, salt)]

\* as verify_password, accepting any password for a bcrypt hash
verify_password_any(plain_password, hashed_password) ==
    IF hashed_password.scheme # "bcrypt"
    THEN [raised |-> TRUE, value |-> FALSE]
    ELSE [raised |-> FALSE, value |-> TRUE]

\* pwd_context.verify returns a bool, or raises when no configured scheme
\* identifies the stored hash; nothing in verify_password catches that
verify_password(plain_password, hashed_password) ==
    IF hashed_password.scheme # "bcrypt"
    THEN [raised |-> TRUE, value |-> FALSE]
    ELSE [raised |-> FALSE,
          value |-> (hashed_password.digest = Bcrypt(plain_password, hashed_password.salt))]

(***************************************************************************)
(* The users table.  A row carries the columns registration and login      *)
(* read or write; created_at, which the database fills in and nothing      *)
(* here reads, is left out.                                                *)
(***************************************************************************)
User(id, username, phone, password_hash, role) ==
    [id |-> id, username |-> username, phone |-> phone,
     password_hash |-> password_hash, role |-> role]

NoUser == User(0, "", "", NoHash, "none")

\* as ByUsername, filtering on the wrong column
ByPhone(store, username) == {u \in store : u.phone = username}

\* db.query(User).filter(User.username == username)
ByUsername(store, username) == {u \in store : u.username = username}

\* .first(): the matching row, or None
First(rows) == IF rows = {} THEN NoUser ELSE CHOOSE u \in rows : TRUE

\* as UniqueViolation, with the phone column not declared unique
UniqueViolationNoPhone(store, row) ==
    \E u \in store : u.id = row.id \/ u.username = row.username

\* the UNIQUE constraints on users.id, users.username and users.phone
UniqueViolation(store, row) ==
    \E u \in store : u.id = row.id \/ u.username = row.username \/ u.phone = row.phone

(***************************************************************************)
(* Token service: PyJWT with HS256.                                        *)
(***************************************************************************)
Claims(sub, username, role, exp) ==
    [sub |-> sub, username |-> username, role |-> role, exp |-> exp]

NoClaims == Claims("", "", "none", 0)

\* HMAC-SHA256 of the signing input under a key
HMAC(key, alg, payload) == [key |-> key, alg |-> alg, payload |-> payload, flip |-> FALSE]

NoSig == [key |-> "", alg |-> "none", payload |-> NoClaims, flip |-> FALSE]

NoToken == [form |-> "absent", alg |-> "none", payload |-> NoClaims, sig |-> NoSig]

\* Optional[timedelta]: None, or a duration in ticks
NoDelta == [given |-> FALSE, ticks |-> 0]
Delta(t) == [given |-> TRUE, ticks |-> t]

\* truth value of an Optional[timedelta]: None and timedelta(0) are falsy
Truthy(expires_delta) == expires_delta.given /\ expires_delta.ticks # 0

\* the JWT NumericDate of a datetime: whole seconds, the fraction dropped
NumericDate(dt) == dt \div TicksPerSecond

\* jwt.encode(payload, key, algorithm): exp is stored as a NumericDate
jwt_encode(to_encode, key, algorithm) ==
    LET payload == [to_encode EXCEPT !.exp = NumericDate(@)]
    IN  [form |-> "jws", alg |-> algorithm, payload |-> payload,
         sig |-> HMAC(key, algorithm, payload)]

\* jwt_helper.create_access_token, called at time now
create_access_token(data, expires_delta, now) ==
    LET expire == IF Truthy(expires_delta)
                  THEN now + expires_delta.ticks
                  ELSE now + Minutes(ACCESS_TOKEN_EXPIRE_MINUTES)
    IN  jwt_encode([data EXCEPT !.exp = expire], SECRET_KEY, ALGORITHM)

\* main.create_access_token, the same function defined a second time
main_create_access_token(data, expires_delta, now) ==
    LET expire == IF Truthy(expires_delta)
                  THEN now + expires_delta.ticks
                  ELSE now + Minutes(ACCESS_TOKEN_EXPIRE_MINUTES)
    IN  jwt_encode([data EXCEPT !.exp = expire], SECRET_KEY, ALGORITHM)

Decoded(payload) == [kind |-> "claims", payload |-> payload]
Raised(exception) == [kind |-> exception, payload |-> NoClaims]

NoOutcome == [kind |-> "none", payload |-> NoClaims]

\* as ExpiredAt, expired only after the expiry instant has passed
ExpiredAfter(exp, now) == exp * TicksPerSecond < now

\* as ExpiredAt, expired only at the expiry instant itself
ExpiredOnlyAt(exp, now) == exp * TicksPerSecond = now

\* PyJWT's exp check at time now: expired once exp <= now
ExpiredAt(exp, now) == exp * TicksPerSecond <= now

\* as jwt_decode, with the signature left unverified
jwt_decode_unverified(token, key, algorithms, now) ==
    IF token.form # "jws"
    THEN Raised("InvalidTokenError")
    ELSE IF ExpiredAt(token.payload.exp, now)
    THEN Raised("ExpiredSignatureError")
    ELSE Decoded(token.payload)

\* jwt.decode(token, key, algorithms) at time now: the algorithm and the
\* signature are checked first, the exp claim after them
jwt_decode(token, key, algorithms, now) ==
    IF token.form # "jws" \/ token.alg \notin algorithms
    THEN Raised("InvalidTokenError")
    ELSE IF token.sig # HMAC(key, token.alg, token.payload)
    THEN Raised("InvalidTokenError")
    ELSE IF ExpiredAt(token.payload.exp, now)
    THEN Raised("ExpiredSignatureError")
    ELSE Decoded(token.payload)

\* jwt_helper.verify_token: the exceptions of jwt.decode propagate
verify_token(token, now) == jwt_decode(token, SECRET_KEY, {ALGORITHM}, now)

\* an HTTP response as the exception handler renders it
Http(kind, status, detail) == [kind |-> kind, status |-> status, detail |-> detail]

\* as main_verify_token, with the handler of InvalidTokenError placed first:
\* ExpiredSignatureError is a subclass of it and is caught there too
main_verify_token_invalid_first(token, now) ==
    LET out == jwt_decode(token, SECRET_KEY, {ALGORITHM}, now)
    IN  IF out.kind \in {"InvalidTokenError", "ExpiredSignatureError"}
        THEN Http("http_error", get_error("AUTH_001").code, "Invalid token")
        ELSE Http("ok", 200, "")

\* main.verify_token: both exceptions become an HTTPException
main_verify_token(token, now) ==
    LET out == jwt_decode(token, SECRET_KEY, {ALGORITHM}, now)
    IN  IF out.kind = "ExpiredSignatureError"
        THEN Http("http_error", get_error("AUTH_001").code, "Token has expired")
        ELSE IF out.kind = "InvalidTokenError"
        THEN Http("http_error", get_error("AUTH_001").code, "Invalid token")
        ELSE Http("ok", 200, "")

(***************************************************************************)
(* Requests and responses.                                                 *)
(***************************************************************************)
Request(username, phone, password, role) ==
    [username |-> username, phone |-> phone, password |-> password, role |-> role]

NoReq == Request("", "", "", "none")

\* what a finished call hands back: the HTTP response, and with it the row
\* created, the token issued or presented, and the outcome of verify_token
Response(op, request, http, user, token, delta, outcome, at) ==
    [op |-> op, request |-> request, http |-> http, user |-> user,
     token |-> token, delta |-> delta, outcome |-> outcome, at |-> at]

NoResp == Response("none", NoReq, Http("none", 0, ""), NoUser, NoToken, NoDelta, NoOutcome, 0)

\* raise HTTPException(status_code=error["code"], detail=error["message"])
HTTPException(error_code) ==
    Http("http_error", get_error(error_code).code, get_error(error_code).message)

\* an exception no handler catches: the server answers 500
Unhandled(exception) == Http("unhandled", 500, exception)

\* as LoginClaims, with the username in place of the id as subject
LoginClaimsByName(user) == Claims(user.username, user.username, user.role, 0)

\* the data dict login puts into the token
LoginClaims(user) == Claims(ToString(user.id), user.username, user.role, 0)

(***************************************************************************)
(* Initial state: empty users table, idle workers, no token issued.        *)
(***************************************************************************)
Init ==
    /\ users = {}
    /\ nextId = 1
    /\ clock = 0
    /\ pc = [w \in Workers |-> "idle"]
    /\ req = [w \in Workers |-> NoReq]
    /\ resp = NoResp
    /\ held = NoToken

(***************************************************************************)
(* POST /api/v1/auth/register, up to the existence check.                  *)
(***************************************************************************)
RegisterCheckOp(w, username, phone, password, role) ==
    /\ pc[w] = "idle"
    /\ nextId <= MaxId
    /\ LET request == Request(username, phone, password, role)
           existing_user == First(ByUsername(users, username))
       IN  IF existing_user # NoUser
           THEN /\ resp' = Response("register", request, HTTPException("USER_001"),
                                    NoUser, NoToken, NoDelta, NoOutcome, clock)
                /\ UNCHANGED <<pc, req>>
           ELSE /\ pc' = [pc EXCEPT ![w] = "commit"]
                /\ req' = [req EXCEPT ![w] = request]
                /\ UNCHANGED resp
    /\ UNCHANGED <<users, nextId, clock, held>>

RegisterCheck ==
    \E w \in Workers, username \in Usernames, phone \in Phones,
       password \in Passwords, role \in RoleInputs :
        RegisterCheckOp(w, username, phone, password, role)

(***************************************************************************)
(* register, from hash_password to the return: db.add, db.commit,          *)
(* db.refresh.  The insert takes the next id of the sequence whether or    *)
(* not the row is accepted.                                                *)
(***************************************************************************)
RegisterCommitOp(w, salt) ==
    /\ pc[w] = "commit"
    /\ LET new_user == User(nextId, req[w].username, req[w].phone,
                            hash_password(req[w].password, salt), req[w].role)
       IN  IF UniqueViolation(users, new_user)
           THEN /\ resp' = Response("register", req[w], Unhandled("IntegrityError"),
                                    NoUser, NoToken, NoDelta, NoOutcome, clock)
                /\ UNCHANGED users
           ELSE /\ users' = users \cup {new_user}
                /\ resp' = Response("register", req[w], Http("ok", 201, ""),
                                    new_user, NoToken, NoDelta, NoOutcome, clock)
    /\ nextId' = nextId + 1
    /\ pc' = [pc EXCEPT ![w] = "idle"]
    /\ req' = [req EXCEPT ![w] = NoReq]
    /\ UNCHANGED <<clock, held>>

RegisterCommit == \E w \in Workers, salt \in Salts : RegisterCommitOp(w, salt)

(***************************************************************************)
(* POST /api/v1/auth/login.                                                *)
(***************************************************************************)
LoginOp(username, password) ==
    /\ \E w \in Workers : pc[w] = "idle"
    /\ LET request == Request(username, "", password, "none")
           user == First(ByUsername(users, username))
           checked == IF user = NoUser
                      THEN [raised |-> FALSE, value |-> FALSE]
                      ELSE verify_password(password, user.password_hash)
           access_token == create_access_token(LoginClaims(user),
                                               Delta(Minutes(ACCESS_TOKEN_EXPIRE_MINUTES)),
                                               clock)
       IN  IF checked.raised
           THEN /\ resp' = Response("login", request, Unhandled("UnknownHashError"),
                                    NoUser, NoToken, NoDelta, NoOutcome, clock)
                /\ UNCHANGED held
           ELSE IF ~checked.value
           THEN /\ resp' = Response("login", request, HTTPException("AUTH_001"),
                                    NoUser, NoToken, NoDelta, NoOutcome, clock)
                /\ UNCHANGED held
           ELSE /\ resp' = Response("login", request, Http("ok", 200, "bearer"),
                                    NoUser, access_token, NoDelta, NoOutcome, clock)
                /\ held' = access_token
    /\ UNCHANGED <<users, nextId, clock, pc, req>>

Login ==
    \E username \in Usernames, password \in Passwords : LoginOp(username, password)

(***************************************************************************)
(* A direct call of create_access_token, in either of its two copies,      *)
(* with the ttl the caller chooses or none.                                *)
(***************************************************************************)
IssueData == {Claims("1", "alice", "citizen", 0)}

Deltas ==
    {NoDelta} \cup
    {Delta(t) : t \in (0 - MaxTtlSeconds * TicksPerSecond)..(MaxTtlSeconds * TicksPerSecond)}

Copies == {"jwt_helper", "main"}

IssueOp(copy, data, expires_delta) ==
    /\ \E w \in Workers : pc[w] = "idle"
    /\ LET encoded_jwt == IF copy = "main"
                          THEN main_create_access_token(data, expires_delta, clock)
                          ELSE create_access_token(data, expires_delta, clock)
       IN  /\ resp' = Response("issue", NoReq, Http("ok", 200, copy), NoUser,
                               encoded_jwt, expires_delta, NoOutcome, clock)
           /\ held' = encoded_jwt
    /\ UNCHANGED <<users, nextId, clock, pc, req>>

Issue ==
    \E copy \in Copies, data \in IssueData, expires_delta \in Deltas :
        IssueOp(copy, data, expires_delta)

(***************************************************************************)
(* What a client may present in place of the token it was given.           *)
(***************************************************************************)
TamperKinds == {"intact", "flipped", "later_exp", "other_role", "other_key", "alg_none"}

Tamper(token, how) ==
    CASE how = "intact" -> token
      [] how = "flipped" -> [token EXCEPT !.sig.flip = TRUE]
      [] how = "later_exp" ->
            [token EXCEPT !.payload.exp = @ + 60 * ACCESS_TOKEN_EXPIRE_MINUTES]
      [] how = "other_role" ->
            [token EXCEPT !.payload.role =
                IF @ = "municipality" THEN "citizen" ELSE "municipality"]
      [] how = "other_key" ->
            [token EXCEPT !.sig = HMAC(OTHER_KEY, token.alg, token.payload)]
      [] how = "alg_none" -> [token EXCEPT !.alg = "none", !.sig = NoSig]

(***************************************************************************)
(* A token is presented and verified: verify_token of jwt_helper gives     *)
(* the outcome, verify_token of main the HTTP answer.                      *)
(***************************************************************************)
VerifyOp(how) ==
    /\ \E w \in Workers : pc[w] = "idle"
    /\ held.form = "jws"
    /\ LET token == Tamper(held, how)
           outcome == verify_token(token, clock)
       IN  resp' = Response("verify", NoReq, main_verify_token(token, clock),
                            NoUser, token, NoDelta, outcome, clock)
    /\ UNCHANGED <<users, nextId, clock, pc, req, held>>

Verify == \E how \in TamperKinds : VerifyOp(how)

(***************************************************************************)
(* Time passes: the clock moves to the next instant.                       *)
(***************************************************************************)
TickOp(later) ==
    /\ later > clock
    /\ \A c \in ClockValues : c > clock => later <= c
    /\ clock' = later
    /\ UNCHANGED <<users, nextId, pc, req, resp, held>>

Tick == \E later \in ClockValues : TickOp(later)

(***************************************************************************)
(* A direct call of ErrorCatalog.get_error with any string as the code:    *)
(* the codes of the catalog, codes of the same form that are not in it,    *)
(* and strings that differ from a code in case, spacing or punctuation.    *)
(***************************************************************************)
CodePrefixes ==
    {"AUTH", "USER", "BATCH", "HOTSPOT", "ROUTE", "VALIDATION",
     "auth", " AUTH", "NOT_A_CODE", "ERR", ""}

CodeSuffixes ==
    {"_001", "_002", "_003", "_004", "_000", "_1", "-001", "001", "_001 ", ""}

ErrorCodes == {prefix \o suffix : prefix \in CodePrefixes, suffix \in CodeSuffixes}

Lookup(error_code) == [error_code |-> error_code]

GetErrorOp(error_code) ==
    /\ \E w \in Workers : pc[w] = "idle"
    /\ LET error == get_error(error_code)
       IN  resp' = Response("get_error", Lookup(error_code),
                            Http("returned", error.code, error.message),
                            NoUser, NoToken, NoDelta, NoOutcome, clock)
    /\ UNCHANGED <<users, nextId, clock, pc, req, held>>

GetError == \E error_code \in ErrorCodes : GetErrorOp(error_code)

(***************************************************************************)
(* Specifications.                                                         *)
(***************************************************************************)
Next == RegisterCheck \/ RegisterCommit \/ Login

Spec == Init /\ [][Next]_vars

NextToken == Issue \/ Verify \/ Tick

SpecToken == Init /\ [][NextToken]_vars

\* the people who sign up in a session: two with a phone of their own, and
\* one who gives the phone of another
Signups ==
    {Request("alice", "+21612345678", "secret1", "citizen"),
     Request("bob", "+21687654321", "wrong", "municipality"),
     Request("bob", "+21612345678", "secret1", "citizen")}

\* every operation, the registrations served one at a time
RegisterCheckSeq ==
    \E r \in Signups : RegisterCheckOp(1, r.username, r.phone, r.password, r.role)

RegisterCommitSeq == \E salt \in Salts : RegisterCommitOp(1, salt)

NextSession == RegisterCheckSeq \/ RegisterCommitSeq \/ Login \/ Verify \/ Tick

SpecSession == Init /\ [][NextSession]_vars

(***************************************************************************)
(* Logins against a users table that was filled from elsewhere (an import, *)
(* an earlier hashing scheme): the stored hash is any string, a bcrypt     *)
(* hash or not.                                                            *)
(***************************************************************************)
StoredHashes ==
    {hash_password(password, salt) : password \in Passwords, salt \in Salts} \cup
    {[scheme |-> scheme, salt |-> "", digest |-> <<"", password>>] :
        scheme \in {"plaintext", "md5_crypt"}, password \in Passwords}

InitStored ==
    /\ users \in {{User(1, username, phone, password_hash, role)} :
                    username \in Usernames, phone \in Phones,
                    password_hash \in StoredHashes, role \in RoleInputs}
    /\ nextId = 2
    /\ clock = 0
    /\ pc = [w \in Workers |-> "idle"]
    /\ req = [w \in Workers |-> NoReq]
    /\ resp = NoResp
    /\ held = NoToken

NextStored == Login \/ Tick

SpecStored == InitStored /\ [][NextStored]_vars

\* lookups in the error catalog
NextCatalog == GetError

SpecCatalog == Init /\ [][NextCatalog]_vars

(***************************************************************************)
(* Properties of registration and login.                                   *)
(***************************************************************************)
Stored(username) == \E u \in users : u.username = username
PhoneTaken(phone) == \E u \in users : u.phone = phone

\* C1: in every reachable state no two stored credentials share a username
\* and no two share a phone number, whatever the interleaving of registers.
C1_UniqueCredentials ==
    \A u1 \in users : \A u2 \in users :
        (u1.username = u2.username \/ u1.phone = u2.phone) => u1 = u2

\* two credentials are stored and the table has turned a third insert down
C1_Witness ==
    /\ Cardinality(users) = 2
    /\ resp.op = "register"
    /\ resp.http.kind = "unhandled"

\* C2: a register request whose username is already stored when it is
\* checked fails with USER_001, status 400, "User already exists", and the
\* step leaves the users table as it was.
C2_DuplicateUsername ==
    [][\A u \in users : \A w \in Workers, phone \in Phones,
          password \in Passwords, role \in RoleInputs :
            RegisterCheckOp(w, u.username, phone, password, role)
            => /\ resp'.op = "register"
               /\ resp'.request = Request(u.username, phone, password, role)
               /\ resp'.http = Http("http_error", 400, "User already exists")
               /\ resp'.http.status = ERRORS["USER_001"].code
               /\ users' = users
               /\ pc'[w] = "idle"]_vars

\* a register for a stored username has been answered 400
C2_Witness ==
    /\ resp.op = "register"
    /\ resp.http.status = 400
    /\ Stored(resp.request.username)

\* C3: a register request with a new username and a phone number already
\* stored ends as a catalogued failure with status 400, the table unchanged.
C3_DuplicatePhone ==
    [][\A w \in Workers, salt \in Salts :
            (/\ pc[w] = "commit"
             /\ ~Stored(req[w].username)
             /\ PhoneTaken(req[w].phone)
             /\ RegisterCommitOp(w, salt))
            => /\ resp'.http.kind = "http_error"
               /\ resp'.http.status = 400
               /\ users' = users]_vars

\* C4: a login for an unknown username and a login with a password that
\* does not match get the same answer, AUTH_001 with status 401 and
\* "Invalid credentials"; no token is issued and the table is unchanged.
C4_InvalidCredentials ==
    [][\A username \in Usernames, password \in Passwords :
            (/\ \A u \in users :
                    u.username = username
                    => u.password_hash.digest # Bcrypt(password, u.password_hash.salt)
             /\ LoginOp(username, password))
            => /\ resp'.op = "login"
               /\ resp'.http = Http("http_error", 401, "Invalid credentials")
               /\ resp'.http.status = ERRORS["AUTH_001"].code
               /\ resp'.token = NoToken
               /\ held' = held
               /\ users' = users]_vars

\* a login for a stored username with the wrong password has been answered 401
C4_Witness ==
    /\ resp.op = "login"
    /\ resp.http.status = 401
    /\ resp.token = NoToken
    /\ \E u \in users :
        /\ u.username = resp.request.username
        /\ u.password_hash.digest # Bcrypt(resp.request.password, u.password_hash.salt)

(***************************************************************************)
(* Properties of the token service.                                        *)
(***************************************************************************)
Registered(username, password) ==
    \E u \in users :
        /\ u.username = username
        /\ u.password_hash.scheme = "bcrypt"
        /\ u.password_hash.digest = Bcrypt(password, u.password_hash.salt)

\* the claims a token or a decoded payload must carry for a stored user
ClaimsOf(payload, u) ==
    /\ payload.sub = ToString(u.id)
    /\ payload.username = u.username
    /\ payload.role = u.role

IntactSignature(token) ==
    /\ token.form = "jws"
    /\ token.alg = "HS256"
    /\ token.sig = [key |-> SECRET_KEY, alg |-> "HS256", payload |-> token.payload, flip |-> FALSE]

ExpiryTick(token) == token.payload.exp * TicksPerSecond

\* C5: a login with a registered username and its password succeeds and
\* returns a token for that user; verifying that token at any time before
\* its expiry returns its payload unchanged, whose sub, username and role
\* are the stored user's id (as a decimal string), username and role.
C5_LoginThenVerify ==
    [][/\ \A username \in Usernames, password \in Passwords :
            (Registered(username, password) /\ LoginOp(username, password))
            => /\ resp'.http = Http("ok", 200, "bearer")
               /\ resp'.token.form = "jws"
               /\ held' = resp'.token
               /\ \E u \in users : u.username = username /\ ClaimsOf(resp'.token.payload, u)
       /\ (clock < ExpiryTick(held) /\ VerifyOp("intact"))
            => /\ resp'.outcome.kind = "claims"
               /\ resp'.outcome.payload = held.payload
               /\ \E u \in users : ClaimsOf(resp'.outcome.payload, u)]_vars

\* a login token has been verified on the last tick before its expiry and
\* the stored user's claims came back
C5_Witness ==
    /\ resp.op = "verify"
    /\ resp.token = held
    /\ resp.at + 1 = ExpiryTick(resp.token)
    /\ resp.outcome.kind = "claims"
    /\ \E u \in users : ClaimsOf(resp.outcome.payload, u)

\* C6: verify returns claims only at a time before the token's expiry; a
\* token with an intact signature verified at or after its expiry fails
\* with the Expired kind and returns no claims.
C6_ExpiredAtExpiry ==
    resp.op = "verify"
    => /\ resp.outcome.kind = "claims" => resp.at < ExpiryTick(resp.token)
       /\ (IntactSignature(resp.token) /\ resp.at >= ExpiryTick(resp.token))
            => resp.outcome = [kind |-> "ExpiredSignatureError", payload |-> NoClaims]

\* an intact token has been verified exactly at its expiry instant
C6_Witness ==
    /\ resp.op = "verify"
    /\ IntactSignature(resp.token)
    /\ resp.at = ExpiryTick(resp.token)
    /\ resp.outcome.kind = "ExpiredSignatureError"

\* C7: whenever the caller supplies a ttl, zero and negative ones included,
\* the token's expiry is now + ttl (as a NumericDate); the default of 30
\* minutes is used only when no ttl is supplied.
C7_ExpiryIsNowPlusTtl ==
    resp.op = "issue"
    => resp.token.payload.exp =
         NumericDate(resp.at + (IF resp.delta.given
                                THEN resp.delta.ticks
                                ELSE 30 * 60 * TicksPerSecond))

\* C8: a token whose signature does not match its content under the
\* signing secret fails verify with the Invalid kind and no claims, at any
\* time.
C8_TamperedIsInvalid ==
    (resp.op = "verify" /\ ~IntactSignature(resp.token))
    => resp.outcome = [kind |-> "InvalidTokenError", payload |-> NoClaims]

\* a token with flipped signature bytes, past its expiry, has been rejected
\* as invalid
C8_Witness ==
    /\ resp.op = "verify"
    /\ resp.token.sig.flip
    /\ resp.at >= ExpiryTick(resp.token)
    /\ resp.outcome.kind = "InvalidTokenError"

Rejects(token, now) == verify_token(token, now).kind # "claims"

\* C9: a token verify rejects stays rejected: no step (register, login,
\* verify or the passing of time) takes the token last rejected, or the held
\* token or any altered form of it, from rejected back to accepted.
C9_RejectedStaysRejected ==
    [][/\ (resp.op = "verify" /\ resp.outcome.kind # "claims")
            => Rejects(resp.token, clock')
       /\ \A how \in TamperKinds :
            (held.form = "jws" /\ Rejects(Tamper(held, how), clock))
            => Rejects(Tamper(held, how), clock')
       /\ clock' >= clock]_vars

\* verify has rejected a login token as expired and time has moved on
C9_Witness ==
    /\ resp.op = "verify"
    /\ resp.token = held
    /\ resp.outcome.kind = "ExpiredSignatureError"
    /\ clock > resp.at

\* C10: when the hash stored for a username is not a bcrypt hash, a login
\* for that username ends with AUTH_001 and status 401, never with an
\* exception nothing handles.
C10_MalformedHashIsFailure ==
    (/\ resp.op = "login"
     /\ \E u \in users :
            u.username = resp.request.username /\ u.password_hash.scheme # "bcrypt")
    => resp.http = Http("http_error", 401, "Invalid credentials")


(***************************************************************************)
(* Properties of the error catalog.                                        *)
(***************************************************************************)
\* the status each code of the catalog stands for
CatalogStatus ==
    ("AUTH_001" :> 401) @@ ("AUTH_002" :> 401) @@
    ("USER_001" :> 400) @@ ("USER_002" :> 404) @@
    ("BATCH_001" :> 400) @@ ("BATCH_002" :> 400) @@ ("BATCH_003" :> 404) @@
    ("HOTSPOT_001" :> 400) @@ ("HOTSPOT_002" :> 404) @@
    ("ROUTE_001" :> 400) @@ ("VALIDATION_001" :> 422)

\* C11: get_error is total.  For each of the eleven catalog codes it returns
\* the fixed status of that code with its message (AUTH_001: 401, "Invalid
\* credentials"), the same pair at every call; for every other string it
\* returns status 500 with "Unknown error" and does not fail.
C11_GetErrorTotal ==
    resp.op = "get_error"
    => LET error_code == resp.request.error_code
       IN  /\ resp.http.kind = "returned"
           /\ Cardinality(DOMAIN CatalogStatus) = 11
           /\ IF error_code \in DOMAIN CatalogStatus
              THEN /\ resp.http.status = CatalogStatus[error_code]
                   /\ resp.http.detail = ERRORS[error_code].message
                   /\ error_code = "AUTH_001" => resp.http.detail = "Invalid credentials"
              ELSE /\ resp.http.status = 500
                   /\ resp.http.detail = "Unknown error"

\* get_error was called with a string that is not a code of the catalog and
\* returned the default
C11_Witness ==
    /\ resp.op = "get_error"
    /\ resp.request.error_code = "NOT_A_CODE"
    /\ resp.http = Http("returned", 500, "Unknown error")

(***************************************************************************)
(* Properties of token verification at the HTTP boundary.                  *)
(***************************************************************************)
\* C12: every failure of token verification leaves main.verify_token as an
\* HTTPException with the status of catalog entry AUTH_001, 401, whichever
\* of the two kinds it is; an expired token is answered "Token has
\* expired", an invalid one "Invalid token", and the two answers differ in
\* nothing but that message.  No failure is answered as a success.
C12_VerifyFailureIs401 ==
    resp.op = "verify"
    => /\ resp.outcome.kind = "claims" <=> resp.http.kind = "ok"
       /\ resp.outcome.kind = "ExpiredSignatureError"
            => resp.http = Http("http_error", 401, "Token has expired")
       /\ resp.outcome.kind = "InvalidTokenError"
            => resp.http = Http("http_error", 401, "Invalid token")
       /\ resp.outcome.kind # "claims" => resp.http.status = ERRORS["AUTH_001"].code

\* an intact token was presented after its expiry and answered 401 "Token
\* has expired"
C12_Witness ==
    /\ resp.op = "verify"
    /\ resp.token = held
    /\ resp.http = Http("http_error", 401, "Token has expired")

\* a token with another signature was answered 401 "Invalid token"
C12_WitnessInvalid ==
    /\ resp.op = "verify"
    /\ resp.token # held
    /\ resp.http = Http("http_error", 401, "Invalid token")

(***************************************************************************)
(* Properties of concurrent registration.                                  *)
(***************************************************************************)
RowsOf(table, username) == {u \in table : u.username = username}

\* worker w passed the existence check for a username for which another
\* worker passed it too, and neither has committed yet
Racing(w) ==
    /\ pc[w] = "commit"
    /\ \E v \in Workers \ {w} : pc[v] = "commit" /\ req[v].username = req[w].username

\* C13: of two register requests for one username that both pass the
\* existence check before either commits, the one that commits first
\* creates the credential (201), and the other, committing once the
\* username is stored, ends with the defined failure USER_001 / 400 "User
\* already exists", not with an unhandled exception; after either commit
\* the table holds exactly one credential for that username.
C13_ConcurrentRegister ==
    [][\A w \in Workers, salt \in Salts :
        (pc[w] = "commit" /\ RegisterCommitOp(w, salt))
        => /\ (Racing(w) /\ ~Stored(req[w].username) /\ ~PhoneTaken(req[w].phone))
                => /\ resp'.http.status = 201
                   /\ Cardinality(RowsOf(users', req[w].username)) = 1
           /\ Stored(req[w].username)
                => /\ resp'.http = HTTPException("USER_001")
                   /\ users' = users
                   /\ Cardinality(RowsOf(users', req[w].username)) = 1]_vars

====
